---- MODULE Spec2Model ----
(***************************************************************************)
(* A model of the ray tracer: vector arithmetic (vec.rs), rays (ray.rs),   *)
(* ray-sphere intersection (sphere.rs), the scene aggregate (hittable.rs), *)
(* the materials (material.rs) and the radiance integrator (main.rs).      *)
(*                                                                         *)
(* f32 values are idealised as exact reals.  A scalar is a finite sum      *)
(*     (SUM over d in DOMAIN t of t[d] * sqrt(d)) / q                      *)
(* with q > 0, every radicand d squarefree (d = 1 is the rational part),   *)
(* every coefficient non-zero and gcd(q, coefficients) = 1.  The form is   *)
(* canonical: two scalars are the same real iff they are the same record.  *)
(* q = 0 marks the IEEE specials: NaN (no term) and +-INF (one term).      *)
(***************************************************************************)
EXTENDS Integers, Sequences, FiniteSets, TLC

Abs(x) == IF x < 0 THEN -x ELSE x

Sgn(x) == IF x < 0 THEN -1 ELSE IF x > 0 THEN 1 ELSE 0

RECURSIVE GCD(_, _)
GCD(m, n) == IF n = 0 THEN m ELSE GCD(n, m % n)

RECURSIVE GcdSet(_)
GcdSet(S) ==
    IF S = {} THEN 0
    ELSE LET x == CHOOSE y \in S : TRUE IN GCD(Abs(x), GcdSet(S \ {x}))

\* The sum of f over the set S, a subset of f's domain.
RECURSIVE SumOver(_, _)
SumOver(f, S) ==
    IF S = {} THEN 0
    ELSE LET x == CHOOSE y \in S : TRUE IN f[x] + SumOver(f, S \ {x})

\* The largest s with s*s dividing n (n > 0) and no prime factor below k,
\* for n without a prime factor below k.
RECURSIVE SquarePart(_, _)
SquarePart(n, k) ==
    IF k * k > n THEN 1
    ELSE IF n % (k * k) = 0 THEN k * SquarePart(n \div (k * k), k)
    ELSE IF n % k = 0 THEN SquarePart(n \div k, k + 1)
    ELSE SquarePart(n, k + 1)

NaN == [q |-> 0, t |-> <<>>]

INF == [q |-> 0, t |-> <<1>>]

IsNaN(u) == u.q = 0 /\ DOMAIN u.t = {}

IsInf(u) == u.q = 0 /\ DOMAIN u.t # {}

\* The canonical scalar with denominator q > 0 and terms f (zeros allowed).
Mk(q, f) ==
    LET D == {d \in DOMAIN f : f[d] # 0}
        g == GCD(q, GcdSet({Abs(f[d]) : d \in D}))
    IN  [q |-> q \div g, t |-> [d \in D |-> f[d] \div g]]

Rat(n, q) == Mk(q, [d \in {1} |-> n])

Num(n) == Rat(n, 1)

Coef(u, d) == IF d \in DOMAIN u.t THEN u.t[d] ELSE 0

NNeg(u) == [q |-> u.q, t |-> [d \in DOMAIN u.t |-> -u.t[d]]]

NAdd(u, v) ==
    IF u.q = 0 \/ v.q = 0 THEN NaN
    ELSE LET D == (DOMAIN u.t) \cup (DOMAIN v.t)
         IN  Mk(u.q * v.q, [d \in D |-> v.q * Coef(u, d) + u.q * Coef(v, d)])

NSub(u, v) == NAdd(u, NNeg(v))

\* sqrt(d1) * sqrt(d2) = g * sqrt(d1*d2/g^2) for squarefree d1, d2, g = gcd.
NMul(u, v) ==
    IF u.q = 0 \/ v.q = 0 THEN NaN
    ELSE LET P == (DOMAIN u.t) \X (DOMAIN v.t)
             Rad(p) == (p[1] * p[2]) \div (GCD(p[1], p[2]) * GCD(p[1], p[2]))
             c == [p \in P |-> u.t[p[1]] * v.t[p[2]] * GCD(p[1], p[2])]
             D == {Rad(p) : p \in P}
         IN  Mk(u.q * v.q, [d \in D |-> SumOver(c, {p \in P : Rad(p) = d})])

\* The sign of x*sqrt(d1) + y*sqrt(d2), d1 # d2 squarefree, x and y non-zero.
Sign2(x, d1, y, d2) ==
    IF Sgn(x) = Sgn(y) THEN Sgn(x)
    ELSE IF x * x * d1 > y * y * d2 THEN Sgn(x) ELSE Sgn(y)

\* The sign of k + x*sqrt(d1) + y*sqrt(d2), 1 # d1 # d2 # 1, all non-zero.
Sign3(k, x, d1, y, d2) ==
    LET sx == Sign2(x, d1, y, d2)
        A  == k * k - x * x * d1 - y * y * d2
        B  == -2 * x * y
        kBigger == IF Sgn(A) = Sgn(B) THEN A > 0
                   ELSE IF A = 0 THEN B > 0
                   ELSE IF A * A > B * B * d1 * d2 THEN A > 0 ELSE B > 0
    IN  IF Sgn(k) = sx THEN sx ELSE IF kBigger THEN Sgn(k) ELSE sx

\* The sign of a finite scalar with at most two irrational terms.
Sign(u) ==
    LET D == DOMAIN u.t
        I == D \ {1}
    IN  IF D = {} THEN 0
        ELSE IF Cardinality(D) = 1 THEN Sgn(u.t[CHOOSE d \in D : TRUE])
        ELSE IF Cardinality(D) = 2
             THEN LET d1 == CHOOSE d \in D : TRUE
                      d2 == CHOOSE d \in D : d # d1
                  IN  Sign2(u.t[d1], d1, u.t[d2], d2)
        ELSE LET d1 == CHOOSE d \in I : TRUE
                 d2 == CHOOSE d \in I : d # d1
             IN  IF Cardinality(D) = 3 /\ 1 \in D
                 THEN Sign3(u.t[1], u.t[d1], d1, u.t[d2], d2)
                 ELSE CHOOSE s \in {} : TRUE

\* -1, 0, 1 for -INF, finite, +INF.
InfRank(u) == IF IsInf(u) THEN Sgn(u.t[1]) ELSE 0

\* u < v as IEEE compares: false when either is NaN.
NLt(u, v) ==
    /\ ~IsNaN(u)
    /\ ~IsNaN(v)
    /\ IF IsInf(u) \/ IsInf(v) THEN InfRank(u) < InfRank(v)
       ELSE Sign(NSub(u, v)) < 0

NGt(u, v) == NLt(v, u)

NLe(u, v) == ~IsNaN(u) /\ ~IsNaN(v) /\ ~NLt(v, u)

\* u / v for a divisor with a single term c*sqrt(d)/q: 1/v = q*sqrt(d)/(c*d).
NDiv(u, v) ==
    IF u.q = 0 \/ v.q = 0 THEN NaN
    ELSE IF DOMAIN v.t = {}
         THEN IF DOMAIN u.t = {} THEN NaN
              ELSE [q |-> 0, t |-> <<Sign(u)>>]
    ELSE LET d == CHOOSE e \in DOMAIN v.t : TRUE
             c == v.t[d]
             inv == Mk(Abs(c) * d, [e \in {d} |-> Sgn(c) * v.q])
         IN  IF Cardinality(DOMAIN v.t) = 1 THEN NMul(u, inv)
             ELSE CHOOSE s \in {} : TRUE

\* sqrt of a rational n/q: sqrt(n*q)/q = s*sqrt(f)/q with n*q = s*s*f.
NSqrt(u) ==
    IF u.q = 0 THEN u
    ELSE IF DOMAIN u.t = {} THEN u
    ELSE IF DOMAIN u.t # {1} THEN CHOOSE s \in {} : TRUE
    ELSE IF u.t[1] < 0 THEN NaN
    ELSE LET n == u.t[1] * u.q
             s == SquarePart(n, 2)
         IN  Mk(u.q, [d \in {n \div (s * s)} |-> s])

\* f32::min: the other operand when one is NaN.
NMin(u, v) ==
    IF IsNaN(u) THEN v ELSE IF IsNaN(v) THEN u
    ELSE IF NLt(v, u) THEN v ELSE u

Zero == Num(0)

One == Num(1)

(***************************************************************************)
(* vec.rs: Vec3 and its operators.  A Vec3 is a triple of scalars.         *)
(***************************************************************************)
Vec3_new(x, y, z) == <<x, y, z>>

\* A Vec3 with integer components.
IVec(v) == Vec3_new(Num(v[1]), Num(v[2]), Num(v[3]))

Vec3_default == Vec3_new(Zero, Zero, Zero)

VNeg(v) == Vec3_new(NNeg(v[1]), NNeg(v[2]), NNeg(v[3]))

VAdd(v, w) == Vec3_new(NAdd(v[1], w[1]), NAdd(v[2], w[2]), NAdd(v[3], w[3]))

VSub(v, w) == Vec3_new(NSub(v[1], w[1]), NSub(v[2], w[2]), NSub(v[3], w[3]))

VMul(v, w) == Vec3_new(NMul(v[1], w[1]), NMul(v[2], w[2]), NMul(v[3], w[3]))

VMulS(v, s) == Vec3_new(NMul(v[1], s), NMul(v[2], s), NMul(v[3], s))

VDivS(v, s) == Vec3_new(NDiv(v[1], s), NDiv(v[2], s), NDiv(v[3], s))

powi2(x) == NMul(x, x)

length_sqrd(v) == NAdd(NAdd(powi2(v[1]), powi2(v[2])), powi2(v[3]))

length(v) == NSqrt(length_sqrd(v))

dot(v1, v2) ==
    NAdd(NAdd(NMul(v1[1], v2[1]), NMul(v1[2], v2[2])), NMul(v1[3], v2[3]))

unit_vector(v) == VDivS(v, length(v))

(***************************************************************************)
(* ray.rs                                                                  *)
(***************************************************************************)
Ray_new(orig, dir) == [orig |-> orig, dir |-> dir]

Ray_default == Ray_new(Vec3_default, Vec3_default)

at(ray, t) == VAdd(ray.orig, VMulS(ray.dir, t))

(***************************************************************************)
(* hittable.rs: HitRecord.  sphere.rs: Sphere and Sphere::hit.             *)
(***************************************************************************)
NoMaterial == [kind |-> "None", albedo |-> Vec3_default, param |-> Zero]

HitRecord_default ==
    [p |-> Vec3_default, normal |-> Vec3_default, t |-> Zero,
     front_face |-> FALSE, mat |-> NoMaterial]

\* set_face_normal keeping the outward normal whatever the side.
set_face_normal_NoFlip(self, ray, outward_normal) ==
    [self EXCEPT !.front_face = NLt(dot(ray.dir, outward_normal), Zero),
                 !.normal = outward_normal]

set_face_normal(self, ray, outward_normal) ==
    LET front_face == NLt(dot(ray.dir, outward_normal), Zero)
    IN  [self EXCEPT !.front_face = front_face,
                     !.normal = IF front_face THEN outward_normal
                                ELSE VNeg(outward_normal)]

None == [some |-> FALSE]

Some(x) == [some |-> TRUE, v |-> x]

Sphere_new(center, radius, mat) ==
    [center |-> center, radius |-> radius, mat |-> mat]

\* HasRoots taking the tangent ray for a crossing one.
HasRoots_Tangent(discriminant) == NLe(Zero, discriminant)

\* sphere.rs:28: the quadratic has two real roots.
HasRoots(discriminant) == NGt(discriminant, Zero)

\* Accepts with the ends of the interval let in.
Accepts_Closed(temp, tmin, tmax) == NLe(temp, tmax) /\ NLe(tmin, temp)

\* sphere.rs:31 and :40: the root lies strictly inside the interval.
Accepts(temp, tmin, tmax) == NLt(temp, tmax) /\ NGt(temp, tmin)

\* sphere.rs:32-37 and :41-46: the record of the hit at parameter t.
Sphere_record(self, ray, t) ==
    LET p == at(ray, t)
        outward_normal == VDivS(VSub(p, self.center), self.radius)
        new == [p |-> p, t |-> t, normal |-> Vec3_default,
                front_face |-> FALSE, mat |-> self.mat]
    IN  set_face_normal(new, ray, outward_normal)

\* sphere.rs:22-26: the quadratic a*t^2 + 2*half_b*t + c of ray and sphere.
Quadratic(self, ray) ==
    LET oc == VSub(ray.orig, self.center)
        a == length_sqrd(ray.dir)
        half_b == dot(oc, ray.dir)
        c == NSub(length_sqrd(oc), powi2(self.radius))
    IN  [a |-> a, half_b |-> half_b, c |-> c,
         discriminant |-> NSub(powi2(half_b), NMul(a, c))]

\* sphere.rs:29-30: (-half_b - root) / a.
SmallRoot(k) == NDiv(NSub(NNeg(k.half_b), NSqrt(k.discriminant)), k.a)

\* sphere.rs:39: (-half_b + root) / a.
LargeRoot(k) == NDiv(NAdd(NNeg(k.half_b), NSqrt(k.discriminant)), k.a)

Sphere_hit(self, ray, tmin, tmax) ==
    LET k == Quadratic(self, ray)
    IN  IF HasRoots(k.discriminant)
        THEN IF Accepts(SmallRoot(k), tmin, tmax)
             THEN Some(Sphere_record(self, ray, SmallRoot(k)))
             ELSE IF Accepts(LargeRoot(k), tmin, tmax)
                  THEN Some(Sphere_record(self, ray, LargeRoot(k)))
                  ELSE None
        ELSE None

(***************************************************************************)
(* hittable.rs: HittableList::hit.  A member's hit returns Some(record)    *)
(* (sphere.rs); the loop reads it as the boolean and the record written    *)
(* through &mut temp_rec (hittable.rs).                                    *)
(***************************************************************************)
\* ListStep against the whole interval: the window is never narrowed.
ListStep_NoNarrowing(obj, ray, tmin, tmax, closest) ==
    Sphere_hit(obj, ray, tmin, tmax)

\* hittable.rs:49: one member's hit, against the window narrowed so far.
ListStep(obj, ray, tmin, tmax, closest) == Sphere_hit(obj, ray, tmin, closest)

\* hittable.rs:45-47: the locals before the loop; out is the caller's record.
LoopStart(tmax, out) ==
    [temp_rec |-> HitRecord_default, hit_anything |-> FALSE,
     closest_so_far |-> tmax, rec |-> out]

\* hittable.rs:49-54: the locals after the member's hit has returned h.
Narrow(st, h) ==
    IF h.some
    THEN [temp_rec |-> h.v, hit_anything |-> TRUE, closest_so_far |-> h.v.t,
          rec |-> h.v]
    ELSE st

\* hittable.rs:49-54: the body of the loop for the member obj.
LoopBody(st, obj, ray, tmin, tmax) ==
    Narrow(st, ListStep(obj, ray, tmin, tmax, st.closest_so_far))

(***************************************************************************)
(* material.rs: the constructors.  A material is a record of its kind, its *)
(* albedo and its scalar parameter (roughness or refraction index).        *)
(***************************************************************************)
Lambertian_new(albedo) ==
    [kind |-> "Lambertian", albedo |-> albedo, param |-> Zero]

Metal_new(albedo, rough) ==
    [kind |-> "Metal", albedo |-> albedo, param |-> NMin(rough, One)]

Dielectric_new(ref_idx) ==
    [kind |-> "Dielectric", albedo |-> Vec3_default, param |-> ref_idx]

\* f32::powi(n), n >= 0.
RECURSIVE powi(_, _)
powi(x, n) == IF n = 0 THEN One ELSE NMul(x, powi(x, n - 1))

\* vec.rs:71-73.
reflect(v, n) == VSub(v, VMulS(n, NMul(Num(2), dot(v, n))))

\* refract with r_out_perp along +n.
refract_PerpFlipped(uv, n, etai_over_etat) ==
    LET cos_theta == dot(VNeg(uv), n)
        r_out_parallel == VMulS(VAdd(uv, VMulS(n, cos_theta)), etai_over_etat)
        r_out_perp ==
            VMulS(n, NSqrt(NSub(One, length_sqrd(r_out_parallel))))
    IN  VAdd(r_out_parallel, r_out_perp)

\* vec.rs:75-80.
refract(uv, n, etai_over_etat) ==
    LET cos_theta == dot(VNeg(uv), n)
        r_out_parallel == VMulS(VAdd(uv, VMulS(n, cos_theta)), etai_over_etat)
        r_out_perp ==
            VMulS(n, NNeg(NSqrt(NSub(One, length_sqrd(r_out_parallel)))))
    IN  VAdd(r_out_parallel, r_out_perp)

\* material.rs:112-116.
schlick(cosine, ref_idx) ==
    LET r0 == powi2(NDiv(NSub(One, ref_idx), NAdd(One, ref_idx)))
    IN  NAdd(r0, NMul(NSub(One, r0), powi(NSub(One, cosine), 5)))

(***************************************************************************)
(* material.rs: scatter.  The random draws are arguments: unit is the      *)
(* value of random_unit_vector(), ball that of random_in_unit_sphere(), f  *)
(* that of random_f32().  The result holds the boolean returned and the    *)
(* out-parameters; arm names the return statement reached.                 *)
(***************************************************************************)
Scattered(b, att, ray, arm) ==
    [ret |-> b, attenuation |-> att, scattered |-> ray, arm |-> arm]

\* material.rs:32-34: Lambertian::scatter once scatter_dir is computed.
Lambertian_finish(self, h, scatter_dir) ==
    Scattered(TRUE, self.albedo, Ray_new(h.p, scatter_dir), "lambertian")

Lambertian_scatter(self, r_in, h, unit) ==
    Lambertian_finish(self, h, VAdd(h.normal, unit))

\* Metal::scatter never turning a reflection down.
Metal_finish_NoReject(self, h, reflected) ==
    Scattered(TRUE, self.albedo, Ray_new(h.p, reflected), "metal")

\* material.rs:57-59: Metal::scatter once reflected is computed.
Metal_finish(self, h, reflected) ==
    LET scattered == Ray_new(h.p, reflected)
    IN  Scattered(NGt(dot(scattered.dir, h.normal), Zero), self.albedo,
                  scattered, "metal")

Metal_scatter(self, r_in, h, ball) ==
    LET u == unit_vector(r_in.dir)
    IN  Metal_finish(self, h,
                     VAdd(reflect(u, h.normal), VMulS(ball, self.param)))

\* material.rs:86: cos_theta of Dielectric::scatter.
CosTheta(r_in, h) == NMin(dot(VNeg(unit_vector(r_in.dir)), h.normal), One)

\* material.rs:79, :90-91, :97-98, :102-104: Dielectric::scatter once the
\* direction is computed.
Dielectric_finish(h, dir, taken) ==
    Scattered(TRUE, Vec3_new(One, One, One), Ray_new(h.p, dir), taken)

Dielectric_scatter(self, r_in, h, f) ==
    LET etai_over_etat ==
            IF h.front_face THEN NDiv(One, self.param) ELSE self.param
        unit_dir == unit_vector(r_in.dir)
        cos_theta == CosTheta(r_in, h)
        sin_theta == NSqrt(NSub(One, powi2(cos_theta)))
        reflected == reflect(unit_dir, h.normal)
        reflect_prob == schlick(cos_theta, etai_over_etat)
        refracted == refract(unit_dir, h.normal, etai_over_etat)
    IN  IF NGt(NMul(etai_over_etat, sin_theta), One)
        THEN Dielectric_finish(h, reflected, "total_internal_reflection")
        ELSE IF NLt(f, reflect_prob)
             THEN Dielectric_finish(h, reflected, "schlick_reflection")
             ELSE Dielectric_finish(h, refracted, "refraction")

(***************************************************************************)
(* main.rs: ray_color.                                                     *)
(***************************************************************************)
\* The depth test never true, as "depth < 0" is for a usize.
DepthExhausted_Never(depth) == depth < 0

\* main.rs:43.
DepthExhausted(depth) == depth <= 0

\* main.rs:44 and :54.
Black == Vec3_new(Zero, Zero, Zero)

\* main.rs:61-63: the background gradient.
Background(ray) ==
    LET unit_dir == unit_vector(ray.dir)
        t == NMul(Rat(1, 2), NAdd(unit_dir[2], One))
    IN  VAdd(VMulS(Vec3_new(One, One, One), NSub(One, t)),
             VMulS(Vec3_new(Rat(1, 2), Rat(7, 10), One), t))

\* The colour of the deeper call handed on as it is.
Attenuate_Dropped(attenuation, deeper) == deeper

\* main.rs:51: attenuation * ray_color(&scattered, world, depth-1).
Attenuate(attenuation, deeper) == VMul(attenuation, deeper)

\* The recursive call made two levels deeper.
Deeper_Twice(depth) == depth - 2

\* main.rs:51: the depth handed to the recursive call.
Deeper(depth) == depth - 1

\* main.rs:50: rec.mat.scatter(r, &rec, ..) dispatched on the material of
\* the record; draw holds the value of the random function scatter calls.
Material_scatter(mat, r_in, h, draw) ==
    CASE mat.kind = "Lambertian" -> Lambertian_scatter(mat, r_in, h, draw.unit)
      [] mat.kind = "Metal" -> Metal_scatter(mat, r_in, h, draw.ball)
      [] mat.kind = "Dielectric" -> Dielectric_scatter(mat, r_in, h, draw.f)

(***************************************************************************)
(* The state: the program counter of the operation under way, its inputs,  *)
(* its locals and its results.                                             *)
(***************************************************************************)
VARIABLES
    pc,              \* the operation under way, "done" once it has returned
    r,               \* the ray handed to hit
    t_min,           \* the interval handed to hit
    t_max,
    objects,         \* HittableList.objects
    outward_normal,  \* the argument of set_face_normal
    idx,             \* HittableList::hit: the position of the iterator
    temp_rec,        \* HittableList::hit: its locals
    hit_anything,
    closest_so_far,
    rec,             \* the caller's record, the out-parameter of hit
    ret,             \* the value returned
    rnd,             \* scatter: the random draws it made
    attenuation,     \* scatter: its out-parameters
    scattered,
    arm,             \* scatter: the return statement it reached
    depth,           \* ray_color: the depth argument of the call under way
    stack,           \* ray_color: the suspended callers, innermost first
    color,           \* ray_color: the colour returned by the last call
    budget,          \* the depth of the outermost call
    calls,           \* the calls of ray_color made so far
    hits,            \* the calls of world.hit made so far
    scatters,        \* the calls of scatter made so far
    px_j,            \* main: the row of the pixel loop, IMAGE_HEIGHT before it
    px_i,            \* main: the column of the pixel loop
    samples_done,    \* main: the turns of the sample loop completed
    pixel_color,     \* main: color, the sum of the samples of the pixel
    px_u,            \* main: u and v of the sample under way
    px_v,
    written          \* the calls of write_color made so far, in order

vars ==
    <<pc, r, t_min, t_max, objects, outward_normal, idx, temp_rec,
      hit_anything, closest_so_far, rec, ret, rnd, attenuation, scattered,
      arm, depth, stack, color, budget, calls, hits, scatters, px_j, px_i,
      samples_done, pixel_color, px_u, px_v, written>>

inputVars == <<r, t_min, t_max, objects, outward_normal>>

loopVars == <<idx, temp_rec, hit_anything, closest_so_far>>

scatterVars == <<rnd, attenuation, scattered, arm>>

colorVars == <<depth, stack, color, budget, calls, hits, scatters>>

renderVars ==
    <<px_j, px_i, samples_done, pixel_color, px_u, px_v, written>>

\* main has not entered the pixel loop.
RenderIdle ==
    /\ px_i = 0
    /\ samples_done = 0
    /\ pixel_color = Vec3_default
    /\ px_u = Zero
    /\ px_v = Zero
    /\ written = <<>>

ColorInit ==
    /\ stack = <<>>
    /\ color = Vec3_default
    /\ depth = budget
    /\ calls = 0
    /\ hits = 0
    /\ scatters = 0

NoDraw == [unit |-> Vec3_default, ball |-> Vec3_default, f |-> Zero]

\* main.rs:48-49: the out-parameters as ray_color hands them to scatter.
ScatterInit ==
    /\ rnd = NoDraw
    /\ attenuation = Vec3_default
    /\ scattered = Ray_default
    /\ arm = "none"

\* Bounds of the inputs.
MaxCoord == 1

MaxRadius == 2

MaxObjects == 2

Coords == -MaxCoord .. MaxCoord

IntVecs == {<<x, y, z>> : x \in Coords, y \in Coords, z \in Coords}

Dirs == {IVec(v) : v \in IntVecs \ {<<0, 0, 0>>}}

Origins == {IVec(<<0, 0, 0>>), IVec(<<1, 0, 1>>)}

Rays == {Ray_new(o, d) : o \in Origins, d \in Dirs}

Grey == Vec3_new(Rat(1, 2), Rat(1, 2), Rat(1, 2))

Gold == Vec3_new(Rat(4, 5), Rat(3, 5), Rat(1, 5))

Materials ==
    {Lambertian_new(Grey), Metal_new(Gold, Rat(1, 2)), Dielectric_new(Rat(3, 2))}

Radii == {Num(-1)} \cup {Num(k) : k \in 1 .. MaxRadius}

\* Around the ray origins, on their surface for some radius, and away.
Centers ==
    {IVec(<<0, 0, 0>>), IVec(<<0, 0, -1>>), IVec(<<0, 0, -2>>),
     IVec(<<1, 0, -1>>), IVec(<<-1, 1, -2>>)}

TestSpheres ==
    {Sphere_new(c, rad, Lambertian_new(Grey)) : c \in Centers, rad \in Radii}

Intervals ==
    {iv \in {Zero, Rat(1, 1000), One} \X {One, Num(2), INF} : NLt(iv[1], iv[2])}

LoopInit ==
    /\ idx = 1
    /\ temp_rec = LoopStart(t_max, HitRecord_default).temp_rec
    /\ hit_anything = LoopStart(t_max, HitRecord_default).hit_anything
    /\ closest_so_far = LoopStart(t_max, HitRecord_default).closest_so_far
    /\ rec = LoopStart(t_max, HitRecord_default).rec

(***************************************************************************)
(* SpecSphere: Sphere::hit on one sphere, and set_face_normal on its own.  *)
(***************************************************************************)
InitSphereHit ==
    /\ pc = "Sphere::hit"
    /\ r \in Rays
    /\ \E iv \in Intervals : t_min = iv[1] /\ t_max = iv[2]
    /\ \E s \in TestSpheres : objects = <<s>>
    /\ outward_normal = Vec3_default
    /\ LoopInit
    /\ ScatterInit
    /\ budget = 0
    /\ ColorInit
    /\ px_j = 0
    /\ RenderIdle
    /\ ret = None

InitFaceNormal ==
    /\ pc = "set_face_normal"
    /\ r \in {Ray_new(IVec(<<0, 0, 0>>), d) : d \in Dirs}
    /\ t_min = Zero
    /\ t_max = INF
    /\ objects = <<>>
    /\ outward_normal \in Dirs \cup {Vec3_default}
    /\ LoopInit
    /\ ScatterInit
    /\ budget = 0
    /\ ColorInit
    /\ px_j = 0
    /\ RenderIdle
    /\ ret = None

InitSphere == InitSphereHit \/ InitFaceNormal

CallSphereHit ==
    /\ pc = "Sphere::hit"
    /\ ret' = Sphere_hit(objects[1], r, t_min, t_max)
    /\ pc' = "done_sphere"
    /\ UNCHANGED <<inputVars, loopVars, rec, scatterVars, colorVars,
                   renderVars>>

CallSetFaceNormal ==
    /\ pc = "set_face_normal"
    /\ rec' = set_face_normal(rec, r, outward_normal)
    /\ pc' = "done_face"
    /\ UNCHANGED <<inputVars, loopVars, ret, scatterVars, colorVars,
                   renderVars>>

NextSphere == CallSphereHit \/ CallSetFaceNormal

SpecSphere == InitSphere /\ [][NextSphere]_vars

(***************************************************************************)
(* SpecList: HittableList::hit, one iteration of its loop at a time.       *)
(***************************************************************************)
Pool ==
    {Sphere_new(IVec(<<0, 0, -2>>), One, Lambertian_new(Grey)),
     Sphere_new(IVec(<<0, 0, -4>>), One, Metal_new(Gold, Rat(1, 2))),
     Sphere_new(IVec(<<0, 0, -3>>), Num(2), Dielectric_new(Rat(3, 2))),
     Sphere_new(IVec(<<0, 0, 0>>), Num(3), Metal_new(Grey, Zero)),
     Sphere_new(IVec(<<1, 0, -2>>), One, Lambertian_new(Gold))}

RECURSIVE SeqsUpTo(_, _)
SeqsUpTo(S, n) ==
    IF n = 0 THEN {<<>>}
    ELSE LET shorter == SeqsUpTo(S, n - 1)
         IN  shorter \cup {Append(q, x) : q \in shorter, x \in S}

Scenes == SeqsUpTo(Pool, MaxObjects)

ListIntervals == {<<Rat(1, 1000), INF>>, <<One, INF>>, <<One, Num(3)>>}

\* Towards the spheres of the pool, and one ray away from them.
ListDirs ==
    {IVec(<<x, y, -1>>) : x \in Coords, y \in Coords} \cup {IVec(<<0, 0, 1>>)}

InitList ==
    /\ pc = "HittableList::hit"
    /\ r \in {Ray_new(IVec(<<0, 0, 0>>), d) : d \in ListDirs}
    /\ \E iv \in ListIntervals : t_min = iv[1] /\ t_max = iv[2]
    /\ objects \in Scenes
    /\ outward_normal = Vec3_default
    /\ LoopInit
    /\ ScatterInit
    /\ budget = 0
    /\ ColorInit
    /\ px_j = 0
    /\ RenderIdle
    /\ ret = FALSE

\* The locals of the loop and the caller's record become those of next.
LoopStore(next) ==
    /\ temp_rec' = next.temp_rec
    /\ hit_anything' = next.hit_anything
    /\ closest_so_far' = next.closest_so_far
    /\ rec' = next.rec

\* hittable.rs:48-55: one turn of the loop, on the member at idx.
LoopStep ==
    /\ idx <= Len(objects)
    /\ LoopStore(LoopBody([temp_rec |-> temp_rec, hit_anything |-> hit_anything,
                           closest_so_far |-> closest_so_far, rec |-> rec],
                          objects[idx], r, t_min, t_max))
    /\ idx' = idx + 1

ListIterate ==
    /\ pc = "HittableList::hit"
    /\ LoopStep
    /\ UNCHANGED <<pc, inputVars, ret, scatterVars, colorVars, renderVars>>

ListReturn ==
    /\ pc = "HittableList::hit"
    /\ idx > Len(objects)
    /\ ret' = hit_anything
    /\ pc' = "done_list"
    /\ UNCHANGED <<inputVars, loopVars, rec, scatterVars, colorVars,
                   renderVars>>

NextList == ListIterate \/ ListReturn

SpecList == InitList /\ [][NextList]_vars

(***************************************************************************)
(* SpecScatter: a material is constructed, a sphere of it is hit by a ray, *)
(* and the material of the record scatters the ray (main.rs:47-50).  The   *)
(* sphere has radius 5 and the rays meet it where its normal is rational   *)
(* (3-4-5 triangles), head-on and obliquely, from outside and from inside. *)
(***************************************************************************)
ScatterRays ==
    {Ray_new(IVec(<<x, 0, 10>>), IVec(<<0, 0, -k>>)) : x \in {0, 3, 4}, k \in {1, 2}}
    \cup {Ray_new(IVec(<<x, 0, 0>>), IVec(<<0, 0, -1>>)) : x \in {0, 3, 4}}
    \cup {Ray_new(IVec(<<-1, 0, 6>>), IVec(<<1, 0, -1>>)),
          Ray_new(IVec(<<1, 0, 4>>), IVec(<<-1, 0, 1>>))}

\* Arguments of Metal::new: below 0, inside [0, 1] and above 1.
RoughnessArgs == {Rat(-1, 2), Zero, Rat(1, 2), One, Num(2)}

RefractionIndices == {One, Rat(3, 2)}

\* Values of gen_range(-1.0, 1.0).
Draws == {Num(-1), Rat(-1, 2), Zero, Rat(1, 2)}

\* vec.rs:46-52: the draws the rejection loop of random_in_unit_sphere keeps.
random_in_unit_sphere ==
    {p \in {Vec3_new(x, y, z) : x \in Draws, y \in Draws, z \in Draws} :
        ~NLe(One, length_sqrd(p))}

\* vec.rs:54-60: values of random_unit_vector, (r cos a, r sin a, z) with
\* r = sqrt(1 - z^2): unit vectors.
random_unit_vector ==
    {IVec(<<1, 0, 0>>), IVec(<<0, -1, 0>>), IVec(<<0, 0, 1>>), IVec(<<0, 0, -1>>),
     Vec3_new(Rat(-3, 5), Zero, Rat(-4, 5)), Vec3_new(Rat(3, 5), Zero, Rat(-4, 5)),
     Vec3_new(Rat(3, 5), Rat(4, 5), Zero), Vec3_new(Zero, Rat(-4, 5), Rat(3, 5))}

\* Values of random_f32(), in [0, 1).
random_f32 == {Zero, Rat(1, 100), Rat(1, 2), Rat(99, 100)}

InitScatter ==
    /\ pc = "new"
    /\ r \in ScatterRays
    /\ t_min = Rat(1, 1000)
    /\ t_max = INF
    /\ objects = <<>>
    /\ outward_normal = Vec3_default
    /\ LoopInit
    /\ ScatterInit
    /\ budget = 0
    /\ ColorInit
    /\ px_j = 0
    /\ RenderIdle
    /\ ret = FALSE

\* A sphere of the material m is put in the way of the ray.
Build(m) ==
    /\ pc = "new"
    /\ objects' = <<Sphere_new(IVec(<<0, 0, 0>>), Num(5), m)>>
    /\ pc' = "hit"
    /\ UNCHANGED <<r, t_min, t_max, outward_normal, loopVars, rec, ret,
                   scatterVars, colorVars, renderVars>>

NewLambertian == Build(Lambertian_new(Grey))

NewMetal == \E rough \in RoughnessArgs : Build(Metal_new(Gold, rough))

NewDielectric == \E ref_idx \in RefractionIndices : Build(Dielectric_new(ref_idx))

\* main.rs:47: world.hit(r, 0.001, INF, &mut rec) on the one sphere.
ScatterHit ==
    /\ pc = "hit"
    /\ LET h == Sphere_hit(objects[1], r, t_min, t_max)
       IN  /\ h.some
           /\ rec' = h.v
    /\ pc' = "scatter"
    /\ UNCHANGED <<inputVars, loopVars, ret, scatterVars, colorVars,
                   renderVars>>

\* main.rs:50: rec.mat.scatter(r, &rec, &mut attenuation, &mut scattered).
Return(draw, out) ==
    /\ rnd' = draw
    /\ ret' = out.ret
    /\ attenuation' = out.attenuation
    /\ scattered' = out.scattered
    /\ arm' = out.arm
    /\ pc' = "done_scatter"
    /\ UNCHANGED <<inputVars, loopVars, rec, colorVars, renderVars>>

CallLambertianScatter ==
    /\ pc = "scatter"
    /\ rec.mat.kind = "Lambertian"
    /\ \E unit \in random_unit_vector :
           Return([NoDraw EXCEPT !.unit = unit],
                  Lambertian_scatter(rec.mat, r, rec, unit))

CallMetalScatter ==
    /\ pc = "scatter"
    /\ rec.mat.kind = "Metal"
    /\ \E ball \in random_in_unit_sphere :
           Return([NoDraw EXCEPT !.ball = ball],
                  Metal_scatter(rec.mat, r, rec, ball))

CallDielectricScatter ==
    /\ pc = "scatter"
    /\ rec.mat.kind = "Dielectric"
    /\ \E f \in random_f32 :
           Return([NoDraw EXCEPT !.f = f],
                  Dielectric_scatter(rec.mat, r, rec, f))

NextScatter ==
    \/ NewLambertian
    \/ NewMetal
    \/ NewDielectric
    \/ ScatterHit
    \/ CallLambertianScatter
    \/ CallMetalScatter
    \/ CallDielectricScatter

SpecScatter == InitScatter /\ [][NextScatter]_vars

(***************************************************************************)
(* SpecColor: ray_color (main.rs:40-64), a call, a turn of the loop of     *)
(* world.hit, a scatter or a return at a time.  The suspended callers are  *)
(* kept on a stack.  The world is a column of spheres on the y axis: matte *)
(* ground, a glass ball and a metal ball of roughness 1.  The camera rays  *)
(* run along the axis, and one beside it that meets the metal ball where   *)
(* its normal is (3/5, -4/5, 0), so that the reflection can be absorbed.   *)
(***************************************************************************)
\* The depth of the outermost call is at most MaxDepth; main hands MAX_DEPTH =
\* 50 (main.rs:22) to it.
MaxDepth == 3

Column ==
    <<Sphere_new(IVec(<<0, -3, 0>>), Num(2), Lambertian_new(Grey)),
      Sphere_new(IVec(<<0, 3, 0>>), One, Dielectric_new(Rat(3, 2))),
      Sphere_new(IVec(<<0, 12, 0>>), Num(5), Metal_new(Gold, One))>>

Worlds == {<<>>, Column}

CameraRays ==
    {Ray_new(IVec(<<0, 0, 0>>), IVec(<<0, -1, 0>>)),
     Ray_new(IVec(<<0, 0, 0>>), IVec(<<0, 2, 0>>)),
     Ray_new(IVec(<<0, 5, 0>>), IVec(<<0, 1, 0>>)),
     Ray_new(IVec(<<3, 0, 0>>), IVec(<<0, 1, 0>>))}

\* Values of random_unit_vector(): along the normal of a hit on the axis,
\* against it, and towards the point (3, 8, 0) of the metal ball.
AxisUnits ==
    {IVec(<<0, 1, 0>>), IVec(<<0, -1, 0>>), Vec3_new(Rat(3, 5), Rat(4, 5), Zero)}

\* Values of random_in_unit_sphere(): the centre, and a point that turns the
\* reflection at the normal (3/5, -4/5, 0) into the surface.
AxisBalls == {Vec3_default, Vec3_new(Rat(-3, 5), Rat(3, 5), Zero)}

\* Values of random_f32(): below and above the reflectance at normal
\* incidence.
AxisFloats == {Zero, Rat(1, 2)}

\* The draws scatter can make for the material mat.
DrawsFor(mat) ==
    CASE mat.kind = "Lambertian" -> {[NoDraw EXCEPT !.unit = u] : u \in AxisUnits}
      [] mat.kind = "Metal" -> {[NoDraw EXCEPT !.ball = b] : b \in AxisBalls}
      [] mat.kind = "Dielectric" -> {[NoDraw EXCEPT !.f = f] : f \in AxisFloats}

InitColor ==
    /\ pc = "ray_color"
    /\ r \in CameraRays
    /\ t_min = Rat(1, 1000)
    /\ t_max = INF
    /\ objects \in Worlds
    /\ outward_normal = Vec3_default
    /\ LoopInit
    /\ ScatterInit
    /\ budget \in 0 .. MaxDepth
    /\ ColorInit
    /\ px_j = 0
    /\ RenderIdle
    /\ ret = FALSE

\* main.rs:40-47: the entry of a call, up to its return for an exhausted
\* depth or to the start of world.hit(r, 0.001, INF, &mut rec).
RayColorCall ==
    /\ pc = "ray_color"
    /\ calls' = calls + 1
    /\ idx' = 1
    /\ LoopStore(LoopStart(t_max, HitRecord_default))
    /\ IF DepthExhausted(depth)
       THEN /\ color' = Black
            /\ pc' = "return"
            /\ hits' = hits
       ELSE /\ color' = color
            /\ pc' = "world.hit"
            /\ hits' = hits + 1
    /\ UNCHANGED <<inputVars, ret, scatterVars, depth, stack, budget, scatters,
                   renderVars>>

\* hittable.rs:48-55, called from main.rs:47.
WorldHit ==
    /\ pc = "world.hit"
    /\ LoopStep
    /\ UNCHANGED <<pc, inputVars, ret, scatterVars, colorVars, renderVars>>

\* main.rs:50-54: scatter has returned out; the call calls itself on the
\* scattered ray, or returns black.  depth - 1 of a usize 0 is an overflow
\* panic in a debug build and wraps in a release build: "underflow" stands
\* for both.
Scatter(draw, out) ==
    /\ scatters' = scatters + 1
    /\ rnd' = draw
    /\ ret' = out.ret
    /\ attenuation' = out.attenuation
    /\ scattered' = out.scattered
    /\ arm' = out.arm
    /\ IF ~out.ret
       THEN /\ color' = Black
            /\ pc' = "return"
            /\ UNCHANGED <<r, depth, stack>>
       ELSE IF Deeper(depth) < 0
       THEN /\ pc' = "underflow"
            /\ UNCHANGED <<r, depth, stack, color>>
       ELSE /\ stack' = <<[attenuation |-> out.attenuation, depth |-> depth,
                           r |-> r]>> \o stack
            /\ r' = out.scattered
            /\ depth' = Deeper(depth)
            /\ pc' = "ray_color"
            /\ color' = color

\* main.rs:47-63: world.hit has returned hit_anything; the call scatters, or
\* returns the background.
RayColorResume ==
    /\ pc = "world.hit"
    /\ idx > Len(objects)
    /\ IF hit_anything
       THEN \E draw \in DrawsFor(rec.mat) :
                Scatter(draw, Material_scatter(rec.mat, r, rec, draw))
       ELSE /\ ret' = FALSE
            /\ color' = Background(r)
            /\ pc' = "return"
            /\ UNCHANGED <<r, depth, stack, scatters, scatterVars>>
    /\ UNCHANGED <<t_min, t_max, objects, outward_normal, loopVars, rec,
                   budget, calls, hits, renderVars>>

\* main.rs:51: the caller multiplies the colour returned to it and returns.
RayColorReturn ==
    /\ pc = "return"
    /\ stack # <<>>
    /\ color' = Attenuate(Head(stack).attenuation, color)
    /\ r' = Head(stack).r
    /\ depth' = Head(stack).depth
    /\ stack' = Tail(stack)
    /\ UNCHANGED <<pc, t_min, t_max, objects, outward_normal, loopVars, rec,
                   ret, scatterVars, budget, calls, hits, scatters,
                   renderVars>>

\* main.rs:156: the outermost call has returned to the pixel loop.
RayColorDone ==
    /\ pc = "return"
    /\ stack = <<>>
    /\ pc' = "done_color"
    /\ UNCHANGED <<inputVars, loopVars, rec, ret, scatterVars, colorVars,
                   renderVars>>

NextColor ==
    RayColorCall \/ WorldHit \/ RayColorResume \/ RayColorReturn \/ RayColorDone

SpecColor == InitColor /\ [][NextColor]_vars

\* A call of ray_color is under way: a step of NextColor can be taken, and
\* every step of NextColor changes pc, idx or the stack.
Running == pc \in {"ray_color", "world.hit", "return"}

\* The program runs on: a step that can be taken is taken.  The condition is
\* WF_vars(NextColor), with ENABLED <<NextColor>>_vars written out as Running.
FairSpecColor == SpecColor /\ ([]<>(~Running) \/ []<><<NextColor>>_vars)

(***************************************************************************)
(* SpecRender: the pixel loop of main (main.rs:147-163) around ray_color.  *)
(* The image and the sample count are scaled down; the depth handed to     *)
(* ray_color is MAX_DEPTH itself.  The world is Column.  The lens and the  *)
(* viewport geometry of Camera::get_ray (camera.rs:54-63) are not          *)
(* modelled: the ray it returns is one of RenderRays, which either misses  *)
(* the world or meets the metal ball and is absorbed or reflected away, so *)
(* that every call returns after at most two levels.                       *)
(***************************************************************************)
\* main.rs:19: 256 there.
IMAGE_WIDTH == 2

\* main.rs:20: 144 there.
IMAGE_HEIGHT == 2

\* main.rs:21: 100 there.
SAMPLES_PER_PIXEL == 2

\* main.rs:22.
MAX_DEPTH == 50

RenderRays ==
    {Ray_new(IVec(<<3, 0, 0>>), IVec(<<0, 1, 0>>)),
     Ray_new(IVec(<<3, 0, 0>>), IVec(<<0, -1, 0>>))}

\* Values of random_f32() in the sample loop.
RenderFloats == {Zero, Rat(1, 2)}

\* The sample loop stopping one turn early.
SamplesRemain_OneShort(n) == n < SAMPLES_PER_PIXEL - 1

\* main.rs:152: for _ in 0..SAMPLES_PER_PIXEL, after n turns.
SamplesRemain(n) == n < SAMPLES_PER_PIXEL

\* main.rs:153 and :154: (i as f32 + random_f32()) / (IMAGE_WIDTH - 1) as f32.
PixelCoord(k, f, size) == NDiv(NAdd(Num(k), f), Num(size - 1))

InitRender ==
    /\ pc = "rows"
    /\ r = Ray_default
    /\ t_min = Rat(1, 1000)
    /\ t_max = INF
    /\ objects = Column
    /\ outward_normal = Vec3_default
    /\ LoopInit
    /\ ScatterInit
    /\ budget = 0
    /\ ColorInit
    /\ px_j = IMAGE_HEIGHT
    /\ RenderIdle
    /\ ret = FALSE

\* main.rs:147-149 and :163: for j in (0..IMAGE_HEIGHT).rev(), and "Done."
\* after it.
RowNext ==
    /\ pc = "rows"
    /\ IF px_j > 0
       THEN /\ px_j' = px_j - 1
            /\ px_i' = 0
            /\ pc' = "pixels"
       ELSE /\ pc' = "done_render"
            /\ UNCHANGED <<px_j, px_i>>
    /\ UNCHANGED <<inputVars, loopVars, rec, ret, scatterVars, colorVars,
                   samples_done, pixel_color, px_u, px_v, written>>

\* main.rs:150-151: for i in 0..IMAGE_WIDTH, and the fresh color of a pixel.
PixelNext ==
    /\ pc = "pixels"
    /\ IF px_i < IMAGE_WIDTH
       THEN /\ pixel_color' = Black
            /\ samples_done' = 0
            /\ pc' = "samples"
       ELSE /\ pc' = "rows"
            /\ UNCHANGED <<pixel_color, samples_done>>
    /\ UNCHANGED <<inputVars, loopVars, rec, ret, scatterVars, colorVars,
                   px_j, px_i, px_u, px_v, written>>

\* main.rs:152-156: a turn of the sample loop, up to the call
\* ray_color(&r, &world, MAX_DEPTH).
SampleCall ==
    /\ pc = "samples"
    /\ SamplesRemain(samples_done)
    /\ \E f \in RenderFloats : px_u' = PixelCoord(px_i, f, IMAGE_WIDTH)
    /\ \E f \in RenderFloats : px_v' = PixelCoord(px_j, f, IMAGE_HEIGHT)
    /\ r' \in RenderRays
    /\ budget' = MAX_DEPTH
    /\ depth' = MAX_DEPTH
    /\ stack' = <<>>
    /\ calls' = 0
    /\ hits' = 0
    /\ scatters' = 0
    /\ pc' = "ray_color"
    /\ UNCHANGED <<t_min, t_max, objects, outward_normal, loopVars, rec, ret,
                   scatterVars, color, px_j, px_i, samples_done, pixel_color,
                   written>>

\* main.rs:156: color += the colour ray_color returned; the turn ends.
Accumulate ==
    /\ pc = "done_color"
    /\ pixel_color' = VAdd(pixel_color, color)
    /\ samples_done' = samples_done + 1
    /\ r' = Ray_default
    /\ px_u' = Zero
    /\ px_v' = Zero
    /\ pc' = "samples"
    /\ UNCHANGED <<t_min, t_max, objects, outward_normal, loopVars, rec, ret,
                   scatterVars, colorVars, px_j, px_i, written>>

\* main.rs:159: write_color(color, SAMPLES_PER_PIXEL) after the sample loop,
\* and the step of the column iterator.
WritePixel ==
    /\ pc = "samples"
    /\ ~SamplesRemain(samples_done)
    /\ written' = Append(written, [i |-> px_i, j |-> px_j,
                                   samples |-> samples_done])
    /\ px_i' = px_i + 1
    /\ pc' = "pixels"
    /\ UNCHANGED <<inputVars, loopVars, rec, ret, scatterVars, colorVars,
                   px_j, samples_done, pixel_color, px_u, px_v>>

NextRender ==
    \/ RowNext
    \/ PixelNext
    \/ SampleCall
    \/ Accumulate
    \/ WritePixel
    \/ NextColor

SpecRender == InitRender /\ [][NextRender]_vars

\* main is under way: a step of NextRender can be taken, and every step of
\* NextRender changes pc, idx, the stack or a loop counter.
Rendering == pc # "done_render"

\* The program runs on: a step that can be taken is taken.  The condition is
\* WF_vars(NextRender), with ENABLED <<NextRender>>_vars written out as
\* Rendering.
FairSpecRender ==
    SpecRender /\ ([]<>(~Rendering) \/ []<><<NextRender>>_vars)

(***************************************************************************)
(* The properties.                                                         *)
(***************************************************************************)
\* The members of the list that report a hit in (t_min, t_max) on their own.
MemberHits ==
    {i \in 1 .. Len(objects) : Sphere_hit(objects[i], r, t_min, t_max).some}

MemberHit(i) == Sphere_hit(objects[i], r, t_min, t_max).v

\* C1: HittableList::hit returns true exactly when some member reports a hit
\* in the interval; the record handed back is then a member's own record
\* (point, normal, front_face, material) whose t is the smallest among all
\* members' hits; with no member hit it returns false.
C1_ClosestHit ==
    pc = "done_list" =>
        /\ ret = (MemberHits # {})
        /\ ret => \E i \in MemberHits :
                      /\ rec = MemberHit(i)
                      /\ \A j \in MemberHits : NLe(rec.t, MemberHit(j).t)

\* A later member hits too, farther away than the first: the narrowed
\* window has turned it down.
C1_Witness ==
    /\ pc = "done_list"
    /\ {1, 2} \subseteq MemberHits
    /\ ret
    /\ rec = MemberHit(1)
    /\ NLt(MemberHit(1).t, MemberHit(2).t)

StrictlyInside(t) == NLt(t_min, t) /\ NLt(t, t_max)

\* The point of the record lies on the sphere: |p - center|^2 = radius^2.
OnSphere(h, s) == length_sqrd(VSub(h.p, s.center)) = powi2(s.radius)

\* C2: with a positive discriminant Sphere::hit returns the smaller root when
\* it lies strictly inside (t_min, t_max), otherwise the larger root when that
\* one does, otherwise nothing; what it returns is an intersection strictly
\* inside the interval, never t_min or t_max, with no root before it inside.
C2_NearestRoot ==
    LET k == Quadratic(objects[1], r)
        t1 == SmallRoot(k)
        t2 == LargeRoot(k)
    IN  (pc = "done_sphere" /\ NLt(Zero, k.discriminant)) =>
            /\ NLt(t1, t2)
            /\ IF StrictlyInside(t1) THEN ret.some /\ ret.v.t = t1
               ELSE IF StrictlyInside(t2) THEN ret.some /\ ret.v.t = t2
               ELSE ret = None
            /\ ret.some =>
                   /\ StrictlyInside(ret.v.t)
                   /\ ret.v.t # t_min /\ ret.v.t # t_max
                   /\ ret.v.p = at(r, ret.v.t)
                   /\ OnSphere(ret.v, objects[1])

\* The smaller root is the lower end of the interval and is turned down; the
\* larger root is returned.
C2_Witness ==
    LET k == Quadratic(objects[1], r)
    IN  /\ pc = "done_sphere"
        /\ NLt(Zero, k.discriminant)
        /\ SmallRoot(k) = t_min
        /\ ret.some
        /\ ret.v.t = LargeRoot(k)

\* What set_face_normal must have made of the outward normal n for ray.
FaceNormalHolds(h, ray, n) ==
    /\ NLe(dot(ray.dir, h.normal), Zero)
    /\ h.front_face <=> NLt(dot(ray.dir, n), Zero)
    /\ h.normal = IF h.front_face THEN n ELSE VNeg(n)

\* C6: after set_face_normal the stored normal has dot(ray.dir, normal) <= 0,
\* front_face is true exactly when dot(ray.dir, outward_normal) < 0, and the
\* normal is outward_normal when front_face and its negation otherwise; so
\* it is for every record Sphere::hit returns, with (p - center) / radius.
C6_NormalOpposesRay ==
    /\ pc = "done_face" => FaceNormalHolds(rec, r, outward_normal)
    /\ (pc = "done_sphere" /\ ret.some) =>
           FaceNormalHolds(ret.v, r,
               VDivS(VSub(ret.v.p, objects[1].center), objects[1].radius))

\* A hit from inside the sphere: the outward normal is along the ray and the
\* record holds its negation.
C6_Witness ==
    /\ pc = "done_sphere"
    /\ ret.some
    /\ ~ret.v.front_face
    /\ NLt(dot(r.dir, ret.v.normal), Zero)

\* C10: with a discriminant <= 0 (the tangent case 0 included) Sphere::hit
\* reports no hit, whatever the interval.
C10_NoRootsNoHit ==
    (pc = "done_sphere" /\ NLe(Quadratic(objects[1], r).discriminant, Zero))
        => ret = None

\* A tangent ray, its touching point inside the interval: no hit.
C10_Witness ==
    LET k == Quadratic(objects[1], r)
    IN  /\ pc = "done_sphere"
        /\ k.discriminant = Zero
        /\ StrictlyInside(NDiv(NNeg(k.half_b), k.a))
        /\ ret = None

\* C7: scatter returns false if and only if the material is Metal and the
\* direction written to the scattered ray (the reflection perturbed by
\* roughness * random_in_unit_sphere()) has dot(scattered.dir, normal) <= 0;
\* Lambertian scatter returns true for every input and every draw.
C7_OnlyMetalAbsorbs ==
    pc = "done_scatter" =>
        /\ ~ret <=> /\ rec.mat.kind = "Metal"
                    /\ NLe(dot(scattered.dir, rec.normal), Zero)
        /\ rec.mat.kind = "Metal" =>
               scattered.dir =
                   VAdd(reflect(unit_vector(r.dir), rec.normal),
                        VMulS(rnd.ball, rec.mat.param))
        /\ rec.mat.kind = "Lambertian" => ret

\* A rough metal whose perturbed reflection points into the surface.
C7_Witness ==
    /\ pc = "done_scatter"
    /\ rec.mat.kind = "Metal"
    /\ NLt(dot(scattered.dir, rec.normal), Zero)
    /\ ~ret

\* C8 as stated: with refractive index 1.0 Dielectric::scatter always takes
\* the refract branch and the scattered direction is the normalised incoming
\* direction, whatever the ray, the record and the random draw.
C8_AlwaysRefractsStraight ==
    (pc = "done_scatter" /\ rec.mat.kind = "Dielectric" /\ rec.mat.param = One)
        => /\ arm = "refraction"
           /\ scattered.dir = unit_vector(r.dir)

\* C8 as amended: with refractive index 1.0 and a record of Sphere::hit,
\* Dielectric::scatter never takes the total-internal-reflection branch; it
\* takes the Schlick reflect branch exactly when the draw of random_f32() is
\* below (1 - cos_theta)^5, and refracts otherwise, the scattered direction
\* then being the normalised incoming direction.
C8_RefractsStraightUnlessSchlick ==
    (pc = "done_scatter" /\ rec.mat.kind = "Dielectric" /\ rec.mat.param = One)
        => /\ arm \in {"schlick_reflection", "refraction"}
           /\ arm = "schlick_reflection" <=>
                  NLt(rnd.f, powi(NSub(One, CosTheta(r, rec)), 5))
           /\ arm = "refraction" => scattered.dir = unit_vector(r.dir)
           /\ scattered.orig = rec.p
           /\ ret

\* An oblique ray refracted by a dielectric of index 1.0: it goes straight on.
C8_Witness ==
    /\ pc = "done_scatter"
    /\ rec.mat.kind = "Dielectric"
    /\ rec.mat.param = One
    /\ NLt(CosTheta(r, rec), One)
    /\ arm = "refraction"
    /\ scattered.dir = unit_vector(r.dir)

\* C9 as stated: the roughness of every Metal material, whatever the argument
\* of Metal::new, lies in [0, 1].
C9_RoughnessClamped ==
    \A i \in 1 .. Len(objects) :
        objects[i].mat.kind = "Metal" =>
            /\ NLe(Zero, objects[i].mat.param)
            /\ NLe(objects[i].mat.param, One)

(***************************************************************************)
(* ray_color.                                                              *)
(***************************************************************************)
IsBlack(c) == c = <<Num(0), Num(0), Num(0)>>

\* The call under way has passed the depth test and world.hit has returned.
AfterHit == pc = "world.hit" /\ idx > Len(objects)

\* C3: ray_color called with depth = 0 returns exactly black, for every ray
\* and every scene, without a call of world.hit and without a call of
\* scatter: the call at depth 0 returns in one step that leaves the counts of
\* both as they are, and a run of budget 0 ends black with neither made.
C3_DepthZeroBlack ==
    /\ [][(pc = "ray_color" /\ depth = 0) =>
            /\ pc' = "return"
            /\ IsBlack(color')
            /\ hits' = hits
            /\ scatters' = scatters
            /\ stack' = stack]_vars
    /\ [](pc = "done_color" /\ budget = 0 =>
            IsBlack(color) /\ calls = 1 /\ hits = 0 /\ scatters = 0)

\* ray_color(r, world, 0) has returned black although r points at the ground
\* of a world that is not empty.
C3_Witness ==
    /\ pc = "done_color"
    /\ budget = 0
    /\ objects # <<>>
    /\ r = Ray_new(IVec(<<0, 0, 0>>), IVec(<<0, -1, 0>>))
    /\ IsBlack(color)
    /\ hits = 0

\* C4: ray_color always terminates.  Every recursive call has depth exactly
\* one less than its caller's; the nested calls are at most depth + 1, the
\* depth of the outermost call; the depth never goes below 0 and depth - 1 is
\* never computed at depth 0; and the outermost call returns.
C4_Terminates ==
    /\ [][(pc = "world.hit" /\ pc' = "ray_color") =>
            /\ depth > 0
            /\ depth' = depth - 1
            /\ Len(stack') = Len(stack) + 1]_vars
    /\ [](/\ depth \in 0 .. budget
          /\ depth + Len(stack) = budget
          /\ calls <= budget + 1
          /\ pc # "underflow")
    /\ <>(pc = "done_color")

\* A chain of the full length: budget + 1 nested calls, the last at depth 0.
C4_Witness ==
    /\ pc = "done_color"
    /\ budget >= 2
    /\ calls = budget + 1
    /\ scatters = budget

\* C5: at depth > 0, with a hit: absorption gives exactly black and no
\* recursive call; otherwise the call recurses on the scattered ray at
\* depth - 1 and returns the component-wise product of the attenuation and
\* the colour that call returns.  With no hit the result is the background
\* gradient, with neither a scatter nor a recursive call.  No outcome is an
\* error: a call that returns returns a colour, and nothing panics.
C5_ThreeOutcomes ==
    /\ [][(AfterHit /\ hit_anything /\ ~ret') =>
            /\ pc' = "return"
            /\ IsBlack(color')
            /\ calls' = calls
            /\ stack' = stack]_vars
    /\ [][(AfterHit /\ hit_anything /\ ret') =>
            /\ pc' = "ray_color"
            /\ r' = scattered'
            /\ depth' = depth - 1
            /\ stack' = <<[attenuation |-> attenuation', depth |-> depth,
                           r |-> r]>> \o stack]_vars
    /\ [][(pc = "return" /\ stack # <<>>) =>
            /\ pc' = "return"
            /\ stack' = Tail(stack)
            /\ \A i \in 1 .. 3 :
                 color'[i] = NMul(Head(stack).attenuation[i], color[i])]_vars
    /\ [][(AfterHit /\ ~hit_anything) =>
            /\ pc' = "return"
            /\ LET t == NMul(Rat(1, 2), NAdd(unit_vector(r.dir)[2], One))
               IN  /\ color'[1] = NAdd(NSub(One, t), NMul(Rat(1, 2), t))
                   /\ color'[2] = NAdd(NSub(One, t), NMul(Rat(7, 10), t))
                   /\ color'[3] = NAdd(NSub(One, t), t)
            /\ scatters' = scatters
            /\ calls' = calls
            /\ stack' = stack]_vars
    /\ [](pc \in {"ray_color", "world.hit", "return", "done_color"})
    /\ [](pc \in {"return", "done_color"} =>
            /\ DOMAIN color = 1 .. 3
            /\ \A i \in 1 .. 3 : DOMAIN color[i] = {"q", "t"})

\* The ground scatters the camera ray to the metal ball, which absorbs it:
\* the deeper call has returned black, and the outermost call its product
\* with the attenuation of the ground.
C5_Witness ==
    /\ pc = "done_color"
    /\ budget >= 2
    /\ calls = 2
    /\ scatters = 2
    /\ ~ret
    /\ rec.mat.kind = "Metal"
    /\ IsBlack(color)

(***************************************************************************)
(* The pixel loop.                                                         *)
(***************************************************************************)
\* The k-th pixel in scanline order: rows from the top one, IMAGE_HEIGHT - 1,
\* down to 0, and the columns of a row from 0 up.
Scanline(k) ==
    [i |-> (k - 1) % IMAGE_WIDTH,
     j |-> IMAGE_HEIGHT - 1 - ((k - 1) \div IMAGE_WIDTH)]

\* C11: in the render loop every pixel is written exactly once, after
\* exactly SAMPLES_PER_PIXEL calls of ray_color, each at depth MAX_DEPTH, have
\* been added to the pixel's color, which starts from black; the pixels are
\* written in scanline order; and the loop reaches "Done".
C11_RenderLoop ==
    /\ [](\A k \in 1 .. Len(written) :
            /\ written[k].i = Scanline(k).i
            /\ written[k].j = Scanline(k).j
            /\ written[k].samples = SAMPLES_PER_PIXEL)
    /\ [](Len(written) <= IMAGE_WIDTH * IMAGE_HEIGHT)
    /\ [](pc = "done_render" => Len(written) = IMAGE_WIDTH * IMAGE_HEIGHT)
    /\ [][(pc = "pixels" /\ pc' = "samples") =>
            pixel_color' = <<Num(0), Num(0), Num(0)>> /\ samples_done' = 0]_vars
    /\ [][(pc = "samples" /\ pc' = "ray_color") =>
            /\ depth' = MAX_DEPTH
            /\ stack' = <<>>
            /\ samples_done < SAMPLES_PER_PIXEL
            /\ UNCHANGED <<pixel_color, samples_done, written>>
          ]_vars
    /\ [][pc = "done_color" =>
            /\ pc' = "samples"
            /\ samples_done' = samples_done + 1
            /\ \A n \in 1 .. 3 :
                 pixel_color'[n] = NAdd(pixel_color[n], color[n])]_vars
    /\ [][(pc \in {"ray_color", "world.hit", "return"}) =>
            UNCHANGED <<pixel_color, samples_done, written, px_i, px_j>>
          ]_vars
    /\ [][written' # written =>
            /\ samples_done = SAMPLES_PER_PIXEL
            /\ written' = Append(written, [i |-> px_i, j |-> px_j,
                                           samples |-> samples_done])]_vars
    /\ <>(pc = "done_render")

\* "Done" is reached with every pixel written, the last of them, (IMAGE_WIDTH
\* - 1, 0), with a color that its samples have made other than black.
C11_Witness ==
    /\ pc = "done_render"
    /\ Len(written) = IMAGE_WIDTH * IMAGE_HEIGHT
    /\ written[Len(written)].i = IMAGE_WIDTH - 1
    /\ written[Len(written)].j = 0
    /\ samples_done = SAMPLES_PER_PIXEL
    /\ ~IsBlack(pixel_color)

====
